---- MODULE Spec2Model ----
(***************************************************************************)
(* The two Express applications of the repository: the product-only app    *)
(* (port 3001) and the farm app (port 3000).  A request is dispatched to   *)
(* its route handler; a handler suspends at each database call (await),    *)
(* so every action below is one database call together with the           *)
(* synchronous code that follows it up to the next await or the response.  *)
(***************************************************************************)
EXTENDS Integers, Sequences, FiniteSets, TLC

\* ---------------------------------------------------------------- bounds
MaxProducts == 2
MaxFarms == 1
MaxInFlight == 2
MaxRequests == 3

Slots == 1..MaxInFlight

\* ------------------------------------------------------------ data model
categories == {"fruit", "vegetables", "dairy"}

Names == {"", "apple", "kale"}
Prices == {{}, {1}}
CategoryInputs == categories \cup {"meat"}
\* submitted product fields: every valid combination, and one invalid
\* submission for each way validation fails
Bodies ==
    [name : Names \ {""}, price : Prices \ {{}}, category : categories]
    \cup {[name |-> "", price |-> {1}, category |-> "fruit"],
          [name |-> "apple", price |-> {}, category |-> "fruit"],
          [name |-> "apple", price |-> {1}, category |-> "meat"]}
NoBody == [name |-> "", price |-> {}, category |-> ""]

FarmBodies == [name : {"", "acre"}, city : {"", "ely"}, email : {"", "a@b.c"}]

\* an identifier from the URL: 0 stands for a string that is no ObjectId
ProductParams == 0..MaxProducts
FarmParams == 0..MaxFarms
IsObjectId(id) == id >= 1

Range(seq) == {seq[i] : i \in DOMAIN seq}

\* productSchema: name and price required, category within the enum
ValidProduct(body) ==
    /\ body.name # ""
    /\ body.price # {}
    /\ body.category \in categories

\* farmSchema: name, city and email required
ValidFarm(fbody) == fbody.name # "" /\ fbody.city # "" /\ fbody.email # ""

\* ---------------------------------------------------------------- errors
NoErr == [name |-> "none", status |-> {}, message |-> {}]

ValidationMessage(body) ==
    IF body.name = "" THEN "Product validation failed: name"
    ELSE IF body.price = {} THEN "Product validation failed: price"
    ELSE "Product validation failed: category"

ValidationError(msg) == [name |-> "ValidationError", status |-> {}, message |-> {msg}]
CastError == [name |-> "CastError", status |-> {}, message |-> {"Cast to ObjectId failed"}]
TypeError == [name |-> "TypeError", status |-> {}, message |-> {"Cannot read property 'products' of null"}]
ReferenceError == [name |-> "ReferenceError", status |-> {}, message |-> {"AppError is not defined"}]
VersionError == [name |-> "VersionError", status |-> {}, message |-> {"No matching document found"}]
NetworkError == [name |-> "MongoNetworkError", status |-> {}, message |-> {"connection lost"}]

\* class AppError extends Error: carries message and status
AppError(message, status) == [name |-> "Error", status |-> {status}, message |-> {message}]

\* `new AppError(message, status)` as each application evaluates it: the
\* product-only app requires ./AppError, the farm app never does, so the
\* expression throws a ReferenceError there
NewAppError(v, message, status) ==
    IF v = "product"
    THEN [thrown |-> FALSE, value |-> AppError(message, status)]
    ELSE [thrown |-> TRUE, value |-> ReferenceError]

\* ${err.message} in a template literal
MessageText(err) ==
    IF err.message = {} THEN "undefined" ELSE CHOOSE m \in err.message : TRUE

\* const handleValidationErr = err => new AppError(`Validation failed... ${err.message}`, 400)
handleValidationErr(v, err) ==
    NewAppError(v, "Validation failed... " \o MessageText(err), 400)

\* first error middleware: rewraps a ValidationError and calls next(err); an
\* exception thrown inside it is caught by the router and forwarded instead
ClassifyStage(v, err) ==
    IF err.name = "ValidationError"
    THEN handleValidationErr(v, err).value
    ELSE err

\* the terminal middleware with the status default lost
TerminalStageNoDefault(err) ==
    [status |-> IF err.status = {} THEN 200 ELSE CHOOSE n \in err.status : TRUE,
     body |-> IF err.message = {} THEN "" ELSE CHOOSE m \in err.message : TRUE]

\* terminal error middleware:
\*   const { status = 500, message = "Something went wrong" } = err
TerminalStage(err) ==
    [status |-> IF err.status = {} THEN 500 ELSE CHOOSE n \in err.status : TRUE,
     body |-> IF err.message = {} THEN "Something went wrong"
              ELSE CHOOSE m \in err.message : TRUE]

\* ------------------------------------------------------------- responses
NoResp == [kind |-> "none", status |-> 0, body |-> "", ref |-> {}, items |-> {}, label |-> ""]
\* res.status(status).send(message)
Send(out) == [kind |-> "send", status |-> out.status, body |-> out.body,
              ref |-> {}, items |-> {}, label |-> ""]
\* res.render(view, { ... })
Render(view, items, label) == [kind |-> "render", status |-> 200, body |-> view,
                               ref |-> {}, items |-> items, label |-> label]
\* res.redirect(`${path}${id}`)
Redirect(path, ref) == [kind |-> "redirect", status |-> 302, body |-> path,
                        ref |-> ref, items |-> {}, label |-> ""]

\* how a handler invocation ends: its promise resolves after it responded,
\* it called next(err) itself, or its promise rejects with err
Resolved(resp) == [type |-> "resolved", err |-> NoErr, resp |-> resp]
CalledNext(err) == [type |-> "next", err |-> err, resp |-> NoResp]
Thrown(err) == [type |-> "rejected", err |-> err, resp |-> NoResp]

\* return next(new AppError('Product not found', 404))
NotFound(v) ==
    LET e == NewAppError(v, "Product not found", 404)
    IN  IF e.thrown THEN Thrown(e.value) ELSE CalledNext(e.value)

\* ----------------------------------------------------------------- state
VARIABLES
    variant,        \* which application runs: "product" or "farm"
    products,       \* the Product collection: stored id -> document
    farms,          \* the Farm collection: stored id -> document
    nextProductId,  \* the next ObjectId a `new Product` receives
    nextFarmId,     \* the next ObjectId a `new Farm` receives
    reqs,           \* per slot: the handler invocation suspended there
    last,           \* the request answered most recently, with its response
    issued,         \* requests received so far
    cascaded        \* product references of the farms whose delete was answered

vars == <<variant, products, farms, nextProductId, nextFarmId, reqs, last, issued, cascaded>>

\* the handlers registered through wrapAsync
WrappedRoutes(v) ==
    IF v = "product"
    THEN {"POST /products", "GET /products/:id", "GET /products/:id/edit",
          "PUT /products/:id", "DELETE /products/:id"}
    ELSE {"POST /farms/:id/products", "GET /products/:id", "GET /products/:id/edit",
          "PUT /products/:id", "DELETE /products/:id"}

Req(route, id, category, body, pid) ==
    [route |-> route, id |-> id, category |-> category, body |-> body, pid |-> pid]

IdleReq == [route |-> "none", pc |-> "idle", id |-> 0, body |-> NoBody,
            pid |-> 0, farmProducts |-> <<>>, err |-> NoErr]

NoLast == [route |-> "none", id |-> 0, category |-> "", body |-> NoBody, pid |-> 0,
           matched |-> FALSE, err |-> NoErr, nextCalls |-> 0, resp |-> NoResp]

Init ==
    /\ variant \in {"product", "farm"}
    /\ products = << >>
    /\ farms = << >>
    /\ nextProductId = 1
    /\ nextFarmId = 1
    /\ reqs = [s \in Slots |-> IdleReq]
    /\ last = NoLast
    /\ issued = 0
    /\ cascaded = {}

DbOutcomes == {"ok", "down"}

\* a new request is taken by the lowest free slot
CanStart(s) ==
    /\ reqs[s].pc = "idle"
    /\ \A t \in Slots : t < s => reqs[t].pc # "idle"
    /\ issued < MaxRequests

InFlight(s) == reqs[s].pc \notin {"idle", "hung"}

\* the handler responded itself: res.render / res.redirect
Respond(s, req, matched, resp) ==
    /\ reqs' = [reqs EXCEPT ![s] = IdleReq]
    /\ last' = [route |-> req.route, id |-> req.id, category |-> req.category,
                body |-> req.body, pid |-> req.pid, matched |-> matched,
                err |-> NoErr, nextCalls |-> 0, resp |-> resp]

\* next(err): the two error middlewares run and the terminal one responds
PassToChain(s, req, matched, err) ==
    /\ reqs' = [reqs EXCEPT ![s] = IdleReq]
    /\ last' = [route |-> req.route, id |-> req.id, category |-> req.category,
                body |-> req.body, pid |-> req.pid, matched |-> matched,
                err |-> err, nextCalls |-> 1,
                resp |-> Send(TerminalStage(ClassifyStage(variant, err)))]

\* a rejected promise nobody catches: no next(err), no response
Unhandled(s, req, matched, err) ==
    /\ reqs' = [reqs EXCEPT ![s] = [IdleReq EXCEPT !.route = req.route,
                                                   !.pc = "hung", !.err = err]]
    /\ last' = last

\* the wrapper without its catch: the rejection goes nowhere
wrapAsyncNoCatch(s, req, matched, err) == Unhandled(s, req, matched, err)

\* wrapAsync: fn(req, res, next).catch(e => next(e))
wrapAsync(s, req, matched, err) == PassToChain(s, req, matched, err)

Settle(s, req, matched, out) ==
    CASE out.type = "resolved" -> Respond(s, req, matched, out.resp)
      [] out.type = "next" -> PassToChain(s, req, matched, out.err)
      [] OTHER -> IF req.route \in WrappedRoutes(variant)
                  THEN wrapAsync(s, req, matched, out.err)
                  ELSE Unhandled(s, req, matched, out.err)

\* --------------------------------------------------------- the database
Doc(body, farm) == [name |-> body.name, price |-> body.price,
                    category |-> body.category, farm |-> farm]

Insert(store, id, doc) == (id :> doc) @@ store
Remove(store, ids) == [k \in DOMAIN store \ ids |-> store[k]]

\* an update that writes the name and drops the other submitted fields
UpdatedNameOnly(store, id, body) == [store EXCEPT ![id].name = body.name]

\* Product.findByIdAndUpdate(id, req.body, { runValidators: true, new: true }):
\* the submitted fields replace the stored ones, the owner stays
Updated(store, id, body) == [store EXCEPT ![id] = Doc(body, @.farm)]

\* ------------------------------------------------------- product routes
\* the listing with the category filter dropped from the query
ListViewUnfiltered(category) ==
    Render("products/index", DOMAIN products, IF category # "" THEN category ELSE "All")

\* app.get('/products'): what the listing renders
ListView(category) ==
    IF category # ""
    THEN Render("products/index",
                {p \in DOMAIN products : products[p].category = category}, category)
    ELSE Render("products/index", DOMAIN products, "All")

GetProducts(s) ==
    /\ CanStart(s)
    /\ \E category \in {""} \cup CategoryInputs, db \in DbOutcomes :
         Settle(s, Req("GET /products", 0, category, NoBody, 0), FALSE,
                IF db = "down" THEN Thrown(NetworkError) ELSE Resolved(ListView(category)))
    /\ issued' = issued + 1
    /\ UNCHANGED <<variant, products, farms, nextProductId, nextFarmId, cascaded>>

\* app.get('/products/new') of the product-only app
ProductsNew(s) ==
    /\ CanStart(s)
    /\ variant = "product"
    /\ Respond(s, Req("GET /products/new", 0, "", NoBody, 0), FALSE,
               Render("products/new", {}, ""))
    /\ issued' = issued + 1
    /\ UNCHANGED <<variant, products, farms, nextProductId, nextFarmId, cascaded>>

\* app.post('/products') of the product-only app
PostProductsOutcome(body, db, pid) ==
    IF ~ValidProduct(body) THEN Thrown(ValidationError(ValidationMessage(body)))
    ELSE IF db = "down" THEN Thrown(NetworkError)
    ELSE Resolved(Redirect("/products/", {pid}))

PostProducts(s) ==
    /\ CanStart(s)
    /\ variant = "product"
    /\ nextProductId <= MaxProducts
    /\ \E body \in Bodies, db \in DbOutcomes :
         LET pid == nextProductId
             out == PostProductsOutcome(body, db, pid)
         IN  /\ products' = IF out.type = "resolved"
                            THEN Insert(products, pid, Doc(body, {}))
                            ELSE products
             /\ Settle(s, Req("POST /products", 0, "", body, pid), FALSE, out)
    /\ nextProductId' = nextProductId + 1
    /\ issued' = issued + 1
    /\ UNCHANGED <<variant, farms, nextFarmId, cascaded>>

\* Product.findById / findByIdAndUpdate / findByIdAndDelete up to the result
Lookup(id, db) ==
    IF ~IsObjectId(id) THEN Thrown(CastError)
    ELSE IF db = "down" THEN Thrown(NetworkError)
    ELSE Resolved(NoResp)

\* app.get('/products/:id') of the product-only app
ProductDetailsOutcome(v, id, db) ==
    IF Lookup(id, db).type = "rejected" THEN Lookup(id, db)
    ELSE IF id \notin DOMAIN products THEN NotFound(v)
    ELSE Resolved(Render("products/details", {id}, ""))

\* app.get('/products/:id') of the farm app: no guard on the result
FarmAppDetailsOutcome(v, id, db) ==
    IF Lookup(id, db).type = "rejected" THEN Lookup(id, db)
    ELSE Resolved(Render("products/details", {id} \cap DOMAIN products, ""))

GetProduct(s) ==
    /\ CanStart(s)
    /\ \E id \in ProductParams, db \in DbOutcomes :
         Settle(s, Req("GET /products/:id", id, "", NoBody, 0), id \in DOMAIN products,
                IF variant = "product" THEN ProductDetailsOutcome(variant, id, db)
                ELSE FarmAppDetailsOutcome(variant, id, db))
    /\ issued' = issued + 1
    /\ UNCHANGED <<variant, products, farms, nextProductId, nextFarmId, cascaded>>

\* app.get('/products/:id/edit')
EditOutcome(v, id, db) ==
    IF Lookup(id, db).type = "rejected" THEN Lookup(id, db)
    ELSE IF id \notin DOMAIN products THEN NotFound(v)
    ELSE Resolved(Render("products/edit", {id}, ""))

GetProductEdit(s) ==
    /\ CanStart(s)
    /\ \E id \in ProductParams, db \in DbOutcomes :
         Settle(s, Req("GET /products/:id/edit", id, "", NoBody, 0),
                id \in DOMAIN products, EditOutcome(variant, id, db))
    /\ issued' = issued + 1
    /\ UNCHANGED <<variant, products, farms, nextProductId, nextFarmId, cascaded>>

\* app.put('/products/:id')
PutOutcome(v, id, body, db) ==
    IF ~IsObjectId(id) THEN Thrown(CastError)
    ELSE IF ~ValidProduct(body) THEN Thrown(ValidationError(ValidationMessage(body)))
    ELSE IF db = "down" THEN Thrown(NetworkError)
    ELSE IF id \notin DOMAIN products THEN NotFound(v)
    ELSE Resolved(Redirect("/products/", {id}))

PutProduct(s) ==
    /\ CanStart(s)
    /\ \E id \in ProductParams, body \in Bodies, db \in DbOutcomes :
         LET out == PutOutcome(variant, id, body, db)
         IN  /\ products' = IF out.type = "resolved"
                            THEN Updated(products, id, body)
                            ELSE products
             /\ Settle(s, Req("PUT /products/:id", id, "", body, 0),
                       id \in DOMAIN products, out)
    /\ issued' = issued + 1
    /\ UNCHANGED <<variant, farms, nextProductId, nextFarmId, cascaded>>

\* app.delete('/products/:id')
DeleteOutcome(v, id, db) ==
    IF Lookup(id, db).type = "rejected" THEN Lookup(id, db)
    ELSE IF id \notin DOMAIN products THEN NotFound(v)
    ELSE Resolved(Redirect("/products", {}))

DeleteProduct(s) ==
    /\ CanStart(s)
    /\ \E id \in ProductParams, db \in DbOutcomes :
         LET out == DeleteOutcome(variant, id, db)
         IN  /\ products' = IF out.type = "resolved"
                            THEN Remove(products, {id})
                            ELSE products
             /\ Settle(s, Req("DELETE /products/:id", id, "", NoBody, 0),
                       id \in DOMAIN products, out)
    /\ issued' = issued + 1
    /\ UNCHANGED <<variant, farms, nextProductId, nextFarmId, cascaded>>

\* ---------------------------------------------------------- farm routes
FarmDoc(fbody, prods) == [name |-> fbody.name, city |-> fbody.city,
                          email |-> fbody.email, products |-> prods]

\* app.get('/farms')
GetFarms(s) ==
    /\ CanStart(s)
    /\ variant = "farm"
    /\ \E db \in DbOutcomes :
         Settle(s, Req("GET /farms", 0, "", NoBody, 0), FALSE,
                IF db = "down" THEN Thrown(NetworkError)
                ELSE Resolved(Render("farms/index", DOMAIN farms, "")))
    /\ issued' = issued + 1
    /\ UNCHANGED <<variant, products, farms, nextProductId, nextFarmId, cascaded>>

\* app.get('/farms/new')
FarmsNew(s) ==
    /\ CanStart(s)
    /\ variant = "farm"
    /\ Respond(s, Req("GET /farms/new", 0, "", NoBody, 0), FALSE,
               Render("farms/new", {}, ""))
    /\ issued' = issued + 1
    /\ UNCHANGED <<variant, products, farms, nextProductId, nextFarmId, cascaded>>

\* app.get('/farms/:id'): Farm.findById(id).populate('products')
GetFarm(s) ==
    /\ CanStart(s)
    /\ variant = "farm"
    /\ \E id \in FarmParams, db \in DbOutcomes :
         Settle(s, Req("GET /farms/:id", id, "", NoBody, 0), id \in DOMAIN farms,
                IF Lookup(id, db).type = "rejected" THEN Lookup(id, db)
                ELSE Resolved(Render("farms/show",
                         IF id \in DOMAIN farms
                         THEN Range(farms[id].products) \cap DOMAIN products
                         ELSE {}, "")))
    /\ issued' = issued + 1
    /\ UNCHANGED <<variant, products, farms, nextProductId, nextFarmId, cascaded>>

\* app.post('/farms')
PostFarms(s) ==
    /\ CanStart(s)
    /\ variant = "farm"
    /\ nextFarmId <= MaxFarms
    /\ \E fbody \in FarmBodies, db \in DbOutcomes :
         LET out == IF ~ValidFarm(fbody)
                    THEN Thrown(ValidationError("Farm validation failed"))
                    ELSE IF db = "down" THEN Thrown(NetworkError)
                    ELSE Resolved(Redirect("/farms", {}))
         IN  /\ farms' = IF out.type = "resolved"
                         THEN Insert(farms, nextFarmId, FarmDoc(fbody, <<>>))
                         ELSE farms
             /\ Settle(s, Req("POST /farms", 0, "", NoBody, 0), FALSE, out)
    /\ nextFarmId' = nextFarmId + 1
    /\ issued' = issued + 1
    /\ UNCHANGED <<variant, products, nextProductId, cascaded>>

\* app.get('/farms/:id/products/new')
FarmProductsNew(s) ==
    /\ CanStart(s)
    /\ variant = "farm"
    /\ \E id \in FarmParams, db \in DbOutcomes :
         Settle(s, Req("GET /farms/:id/products/new", id, "", NoBody, 0),
                id \in DOMAIN farms,
                IF Lookup(id, db).type = "rejected" THEN Lookup(id, db)
                ELSE Resolved(Render("products/new", {}, "")))
    /\ issued' = issued + 1
    /\ UNCHANGED <<variant, products, farms, nextProductId, nextFarmId, cascaded>>

\* app.post('/farms/:id/products'), first await: Farm.findById(id), then
\* new Product(...), farm.products.push(product), product.farm = farm
AddProductFind(s) ==
    /\ CanStart(s)
    /\ variant = "farm"
    /\ nextProductId <= MaxProducts
    /\ \E id \in FarmParams, body \in Bodies, db \in DbOutcomes :
         LET pid == nextProductId
             found == id \in DOMAIN farms
         IN  IF Lookup(id, db).type = "rejected"
             THEN /\ Settle(s, Req("POST /farms/:id/products", id, "", body, 0),
                            found, Lookup(id, db))
                  /\ nextProductId' = nextProductId
             ELSE IF ~found
             THEN /\ Settle(s, Req("POST /farms/:id/products", id, "", body, pid),
                            found, Thrown(TypeError))
                  /\ nextProductId' = nextProductId + 1
             ELSE /\ reqs' = [reqs EXCEPT ![s] =
                        [IdleReq EXCEPT !.route = "POST /farms/:id/products",
                                        !.pc = "farmSave", !.id = id, !.body = body,
                                        !.pid = pid,
                                        !.farmProducts = Append(farms[id].products, pid)]]
                  /\ last' = last
                  /\ nextProductId' = nextProductId + 1
    /\ issued' = issued + 1
    /\ UNCHANGED <<variant, products, farms, nextFarmId, cascaded>>

\* second await: farm.save() pushes the new reference onto the stored farm
AddProductSaveFarm(s) ==
    /\ reqs[s].pc = "farmSave"
    /\ \E db \in DbOutcomes :
         LET r == reqs[s]
             req == Req(r.route, r.id, "", r.body, r.pid)
         IN  IF db = "down"
             THEN Settle(s, req, TRUE, Thrown(NetworkError)) /\ farms' = farms
             ELSE IF r.id \notin DOMAIN farms
             THEN Settle(s, req, TRUE, Thrown(VersionError)) /\ farms' = farms
             ELSE /\ farms' = [farms EXCEPT ![r.id].products = Append(@, r.pid)]
                  /\ reqs' = [reqs EXCEPT ![s].pc = "productSave"]
                  /\ last' = last
    /\ UNCHANGED <<variant, products, nextProductId, nextFarmId, issued, cascaded>>

\* third await: product.save(), then res.redirect(`/farms/${id}`)
AddProductSaveProduct(s) ==
    /\ reqs[s].pc = "productSave"
    /\ \E db \in DbOutcomes :
         LET r == reqs[s]
             req == Req(r.route, r.id, "", r.body, r.pid)
             out == IF ~ValidProduct(r.body)
                    THEN Thrown(ValidationError(ValidationMessage(r.body)))
                    ELSE IF db = "down" THEN Thrown(NetworkError)
                    ELSE Resolved(Redirect("/farms/", {r.id}))
         IN  /\ products' = IF out.type = "resolved"
                            THEN Insert(products, r.pid, Doc(r.body, {r.id}))
                            ELSE products
             /\ Settle(s, req, TRUE, out)
    /\ UNCHANGED <<variant, farms, nextProductId, nextFarmId, issued, cascaded>>

\* app.delete('/farms/:id'): Farm.findByIdAndDelete(id) removes the farm and
\* hands the removed document to the post('findOneAndDelete') hook
DeleteFarm(s) ==
    /\ CanStart(s)
    /\ variant = "farm"
    /\ \E id \in FarmParams, db \in DbOutcomes :
         LET req == Req("DELETE /farms/:id", id, "", NoBody, 0)
             found == id \in DOMAIN farms
         IN  IF Lookup(id, db).type = "rejected"
             THEN Settle(s, req, found, Lookup(id, db)) /\ farms' = farms
             ELSE IF ~found
             THEN Settle(s, req, found, Thrown(TypeError)) /\ farms' = farms
             ELSE /\ farms' = Remove(farms, {id})
                  /\ IF Len(farms[id].products) = 0
                     THEN Settle(s, req, found, Resolved(Redirect("/farms", {})))
                     ELSE /\ reqs' = [reqs EXCEPT ![s] =
                                [IdleReq EXCEPT !.route = "DELETE /farms/:id",
                                                !.pc = "deleteMany", !.id = id,
                                                !.farmProducts = farms[id].products]]
                          /\ last' = last
    /\ issued' = issued + 1
    /\ UNCHANGED <<variant, products, nextProductId, nextFarmId, cascaded>>

\* farmSchema.post('findOneAndDelete'):
\*   Product.deleteMany({ _id: { $in: farm.products } }), then res.redirect('/farms')
CascadeDelete(s) ==
    /\ reqs[s].pc = "deleteMany"
    /\ \E db \in DbOutcomes :
         LET r == reqs[s]
             req == Req(r.route, r.id, "", NoBody, 0)
         IN  IF db = "down"
             THEN /\ Settle(s, req, TRUE, Thrown(NetworkError))
                  /\ UNCHANGED <<products, cascaded>>
             ELSE /\ products' = Remove(products, Range(r.farmProducts))
                  /\ cascaded' = cascaded \cup Range(r.farmProducts)
                  /\ Settle(s, req, TRUE, Resolved(Redirect("/farms", {})))
    /\ UNCHANGED <<variant, farms, nextProductId, nextFarmId, issued>>

\* ------------------------------------------------------------ the system
Next ==
    \E s \in Slots :
        \/ GetProducts(s)
        \/ ProductsNew(s)
        \/ PostProducts(s)
        \/ GetProduct(s)
        \/ GetProductEdit(s)
        \/ PutProduct(s)
        \/ DeleteProduct(s)
        \/ GetFarms(s)
        \/ FarmsNew(s)
        \/ GetFarm(s)
        \/ PostFarms(s)
        \/ FarmProductsNew(s)
        \/ AddProductFind(s)
        \/ AddProductSaveFarm(s)
        \/ AddProductSaveProduct(s)
        \/ DeleteFarm(s)
        \/ CascadeDelete(s)

Spec == Init /\ [][Next]_vars

\* ------------------------------------------ the error chain on its own
\* every shape of value a handler can hand to next(err)
ErrorShapes ==
    [name : {"Error", "ValidationError", "CastError", "TypeError", "MongoNetworkError"},
     status : {{}, {400}, {404}, {503}},
     message : {{}, {"Product not found"}, {"boom"}}]

InitChain ==
    /\ variant \in {"product", "farm"}
    /\ products = << >>
    /\ farms = << >>
    /\ nextProductId = 1
    /\ nextFarmId = 1
    /\ \E e \in ErrorShapes :
         reqs = [s \in Slots |->
                   IF s = 1 THEN [IdleReq EXCEPT !.route = "PUT /products/:id",
                                                 !.pc = "next", !.err = e]
                   ELSE IdleReq]
    /\ last = NoLast
    /\ issued = 1
    /\ cascaded = {}

\* next(err) reaches the two app.use((err, ...) => ...) middlewares
RunChain(s) ==
    /\ reqs[s].pc = "next"
    /\ PassToChain(s, Req(reqs[s].route, 0, "", NoBody, 0), FALSE, reqs[s].err)
    /\ UNCHANGED <<variant, products, farms, nextProductId, nextFarmId, issued, cascaded>>

NextChain == \E s \in Slots : RunChain(s)

SpecChain == InitChain /\ [][NextChain]_vars

\* ------------------------------------------------------------ the claims
IdRoutes == {"GET /products/:id", "GET /products/:id/edit",
             "PUT /products/:id", "DELETE /products/:id"}

\* this step answers a request: a running handler leaves its slot, or a
\* handler with a single await is received and answered at once
AnswerStep ==
    \/ \E s \in Slots : InFlight(s) /\ reqs'[s].pc = "idle"
    \/ issued' = issued + 1 /\ reqs' = reqs

Quiescent == \A s \in Slots : ~InFlight(s)
AllAnswered == \A s \in Slots : reqs[s].pc = "idle"

\* C1: a detail, edit-form, update or delete request whose (well-formed)
\* identifier matches no stored product is answered 404 "Product not found",
\* in both applications (database reachable, submitted fields valid)
C1_NotFoundAnswered ==
    (/\ last.route \in IdRoutes
     /\ IsObjectId(last.id)
     /\ ~last.matched
     /\ last.err.name # "MongoNetworkError"
     /\ last.route = "PUT /products/:id" => ValidProduct(last.body))
    => /\ last.resp.kind = "send"
       /\ last.resp.status = 404
       /\ last.resp.body = "Product not found"

\* C2: a wrapped handler whose persistence call fails schema validation is
\* answered 400 with body "Validation failed... " followed by the original
\* validation message, in both applications
C2_ValidationAnswered400 ==
    (last.route \in WrappedRoutes(variant) /\ last.err.name = "ValidationError")
    => /\ last.resp.kind = "send"
       /\ last.resp.status = 400
       /\ last.resp.body = "Validation failed... " \o MessageText(last.err)

\* C3: once DELETE /farms/:id has been answered for a farm holding N >= 1
\* product references, none of those products is stored, now or later
C3_CascadeCompletes == cascaded \cap DOMAIN products = {}

\* C4: when POST /farms/:id/products for a stored farm is answered, the
\* product it constructed is stored with that farm as owner exactly if the
\* stored farm lists it, whatever the outcome of the two writes, and with
\* valid fields (database reachable) both sides hold
C4_LinkSidesAgree ==
    [][(AnswerStep /\ last'.route = "POST /farms/:id/products" /\ last'.matched)
       => LET pid == last'.pid
              f == last'.id
              productSide == pid \in DOMAIN products' /\ products'[pid].farm = {f}
              farmSide == f \in DOMAIN farms' /\ pid \in Range(farms'[f].products)
          IN  /\ productSide <=> farmSide
              /\ (ValidProduct(last'.body) /\ last'.err.name # "MongoNetworkError")
                    => productSide /\ farmSide]_vars

\* C5: with no request in flight, every reference in a stored farm's products
\* names a stored product whose farm back-reference is that farm
C5_FarmReferencesResolve ==
    Quiescent =>
        \A f \in DOMAIN farms : \A p \in Range(farms[f].products) :
            p \in DOMAIN products /\ products[p].farm = {f}

\* C6: an error passed to the chain that is no schema-validation failure is
\* answered with its own status (500 if it has none) and its own message
\* ("Something went wrong" if it has none) as the whole body; the first stage
\* passes it on unchanged
C6_OtherErrorsKeepStatusAndMessage ==
    (last.nextCalls = 1 /\ last.err.name # "ValidationError")
    => /\ ClassifyStage(variant, last.err) = last.err
       /\ last.resp.kind = "send"
       /\ IF last.err.status = {} THEN last.resp.status = 500
          ELSE last.err.status = {last.resp.status}
       /\ IF last.err.message = {} THEN last.resp.body = "Something went wrong"
          ELSE last.err.message = {last.resp.body}

C6_Witness ==
    /\ last.nextCalls = 1
    /\ last.err.name = "TypeError"
    /\ last.err.status = {}
    /\ last.err.message = {}
    /\ last.resp.status = 500
    /\ variant = "farm"

\* C7: GET /products without a category renders every stored product under
\* the label "All"; with category=c it renders exactly the stored products of
\* category c under the label c; the listing fails only when the database does
C7_ListingFiltersByCategory ==
    /\ [](\A s \in Slots :
            (reqs[s].pc = "hung" /\ reqs[s].route = "GET /products")
            => reqs[s].err.name = "MongoNetworkError")
    /\ [][(AnswerStep /\ last'.route = "GET /products")
          => /\ last'.resp.kind = "render"
             /\ last'.resp.body = "products/index"
             /\ IF last'.category = ""
                THEN /\ last'.resp.items = DOMAIN products'
                     /\ last'.resp.label = "All"
                ELSE /\ last'.resp.items =
                          {p \in DOMAIN products' :
                               products'[p].category = last'.category}
                     /\ last'.resp.label = last'.category]_vars

C7_Witness ==
    /\ last.route = "GET /products"
    /\ last.category = "dairy"
    /\ last.resp.items # {}
    /\ \E p \in DOMAIN products : products[p].category # "dairy"

\* C8: PUT /products/:id for a stored product with valid fields (database
\* reachable) leaves it holding every submitted field, leaves every other
\* product unchanged and redirects to /products/<id>
C8_UpdatePersistsAndRedirects ==
    [][(/\ AnswerStep
        /\ last'.route = "PUT /products/:id"
        /\ last'.id \in DOMAIN products
        /\ ValidProduct(last'.body)
        /\ last'.err.name # "MongoNetworkError")
       => /\ DOMAIN products' = DOMAIN products
          /\ products'[last'.id] = Doc(last'.body, products[last'.id].farm)
          /\ \A q \in DOMAIN products \ {last'.id} : products'[q] = products[q]
          /\ last'.resp = Redirect("/products/", {last'.id})]_vars

C8_Witness ==
    /\ last.route = "PUT /products/:id"
    /\ last.resp.kind = "redirect"
    /\ Cardinality(DOMAIN products) = 2
    /\ products[last.id] = Doc(last.body, products[last.id].farm)
    /\ \E q \in DOMAIN products : products[q].name # last.body.name

\* C9: an error raised in a handler not wrapped by wrapAsync is never passed
\* to the chain and its request never gets a response; in a wrapped handler
\* every error is passed to the chain exactly once and the request is answered
C9_OnlyWrappedErrorsReachChain ==
    /\ [](/\ \A s \in Slots :
               reqs[s].pc = "hung" =>
                   /\ reqs[s].route \notin WrappedRoutes(variant)
                   /\ reqs[s].err # NoErr
          /\ last.route \notin WrappedRoutes(variant) =>
               last.err = NoErr /\ last.nextCalls = 0
          /\ (last.route \in WrappedRoutes(variant) /\ last.err # NoErr) =>
               last.nextCalls = 1 /\ last.resp.kind = "send")
    /\ [][\A s \in Slots : reqs[s].pc = "hung" => reqs'[s] = reqs[s]]_vars

C9_Witness ==
    /\ \E s \in Slots : reqs[s].pc = "hung" /\ reqs[s].route = "DELETE /farms/:id"
    /\ last.route = "POST /farms/:id/products"
    /\ last.nextCalls = 1
    /\ last.resp.kind = "send"

\* C10: once every request has been answered, every stored product with a farm
\* reference names a stored farm whose products contain it
C10_NoOrphanedProduct ==
    AllAnswered =>
        \A p \in DOMAIN products : \A f \in products[p].farm :
            f \in DOMAIN farms /\ p \in Range(farms[f].products)

====
